---- MODULE Spec2Model ----
(***************************************************************************)
(* A model of agent.py: the replay memory, the agent base class and the    *)
(* dqn agent (epsilon-greedy action selection, epsilon decay, TD targets,  *)
(* the training loop).                                                     *)
(***************************************************************************)
EXTENDS Integers, Sequences, FiniteSets, TLC

VARIABLES
    \* ---- class memory ----
    capacity,       \* the maxlen the deque was built with
    memory,         \* memory.memory: the deque, oldest transition first
    pushed,         \* history: every transition pushed so far, in push order
    sampled,        \* history: the call of sample, when it is the last operation
    \* ---- agent_base: the stopping criterion ----
    n_solving_episodes,
    solving_threshold_min,
    solving_threshold_mean,
    episode_returns,    \* train's list of the returns of the episodes so far
    criterion,          \* history: the call of evaluate_stopping_criterion,
                        \* when it is the last operation
    \* ---- dqn: the epsilon-greedy schedule ----
    epsilon,            \* self.epsilon, a double
    epsilon_1,          \* self.epsilon_1, the final value of epsilon
    d_epsilon,          \* self.d_epsilon, the decrease of epsilon per step
    epsilon_0,          \* history: parameters['epsilon']
    epsilon_before,     \* history: epsilon before the last update_epsilon
    decay_steps,        \* history: the number of calls of update_epsilon
    \* ---- agent_base.__init__ ----
    user_parameters,    \* the dictionary handed to the constructor
    parameters,         \* self.parameters
    neural_networks,    \* the keys of self.neural_networks
    constructed,        \* "no", "yes", or the error the constructor raised
    \* ---- dqn.run_optimization_step: the TD target ----
    n_actions,          \* self.n_actions
    discount_factor,    \* self.discount_factor, a rational
    doubleDQN,          \* self.doubleDQN
    policy_out,         \* policy_net(next_state_batch), a Q vector per row
    target_out,         \* target_net(next_state_batch), a Q vector per row
    reward_batch,
    done_batch,
    rhs,                \* history: RHS as computed without and with doubleDQN
    \* ---- dqn: the agent ----
    in_training,        \* self.in_training
    mode,               \* policy_net.training: "train" or "eval"
    policy_net,         \* the weights of neural_networks['policy_net']
    target_net,         \* the weights of neural_networks['target_net']
    batch_size,         \* self.batch_size
    target_net_update_stride,
    target_net_update_tau,  \* a rational
    optimizer_steps,    \* the state of optimizers['policy_net']: steps taken
    acted,              \* history: the call of act, when it is the last
                        \* operation
    optimized,          \* history: the last call of run_optimization_step
    \* ---- agent_base.train ----
    training_stride,
    saving_stride,
    n_episodes_max,
    model_filename,     \* TRUE if train was given a model_filename
    training_filename,  \* TRUE if train was given a training_filename
    pc,                 \* where train is: "idle", "reset", "step",
                        \* "save", "returned", "raised"
    state,              \* train's local: the observation to act on
    n_episode,
    i_step,             \* train's local i: the time step within the episode
    step_counter,
    epoch_counter,
    current_total_reward,
    training_complete,
    episode_durations,
    steps_simulated,
    training_epochs,
    output_state_dicts, \* episode -> the agent state saved at its end
    training_results,   \* train's local: the record built at the last save
    model_file,         \* what torch.save wrote last
    results_file,       \* what save_dictionary wrote last
    returned,           \* what train returned
    invocations,        \* history: the calls of run_optimization_step that
                        \* train has made
    endless_episode,    \* the environment: the episode it never ends, or
                        \* NoEndless if it ends every episode
    \* ---- agent_base.get_state and load_state, soft_update_target_net ----
    n_state,            \* self.n_state
    saved_state,        \* a dictionary that get_state returned
    loaded,             \* history: the call of load_state, when it is the
                        \* last operation
    soft_updated        \* history: the last call of soft_update_target_net

memVars == <<capacity, memory, pushed, sampled>>

stopVars == <<n_solving_episodes, solving_threshold_min,
              solving_threshold_mean, episode_returns, criterion>>

epsVars == <<epsilon, epsilon_1, d_epsilon, epsilon_0, epsilon_before,
             decay_steps>>

initVars == <<user_parameters, parameters, neural_networks, constructed>>

tdVars == <<n_actions, discount_factor, doubleDQN, policy_out, target_out,
            reward_batch, done_batch, rhs>>

agentVars == <<in_training, mode, policy_net, target_net, batch_size,
               target_net_update_stride, target_net_update_tau,
               optimizer_steps, acted, optimized>>

trainVars == <<training_stride, saving_stride, n_episodes_max, model_filename,
               training_filename, pc, state, n_episode, i_step, step_counter,
               epoch_counter, current_total_reward, training_complete,
               episode_durations, steps_simulated, training_epochs,
               output_state_dicts, training_results, model_file, results_file,
               returned, invocations, endless_episode>>

loadVars == <<n_state, saved_state, loaded, soft_updated>>

vars == <<memVars, stopVars, epsVars, initVars, tdVars, agentVars, trainVars,
          loadVars>>

(***************************************************************************)
(* Bounds of the model.                                                    *)
(***************************************************************************)
MaxCapacity == 3        \* largest deque capacity drawn
MaxPushes == 5          \* pushes per behaviour of the memory
MaxBatch == 3           \* largest k handed to sample
MaxObs == 1             \* environment observations are 0..MaxObs
MaxSolving == 3         \* largest n_solving_episodes drawn
MaxReturns == 4         \* episode returns recorded per behaviour
MaxReturn == 3          \* episode returns are 0..MaxReturn
MaxDecaySteps == 20     \* calls of update_epsilon per behaviour
MaxQ == 1               \* the networks' outputs are 0..MaxQ
MaxOptSteps == 2        \* optimizer steps per behaviour outside train
MaxEpisodeLength == 2   \* the environment truncates an episode at this step
MaxEndlessSteps == 3    \* time steps followed of an episode that never ends

(***************************************************************************)
(* Transition = namedtuple(state, action, next_state, reward, done)        *)
(***************************************************************************)
Obs == 0..MaxObs

Transition(s, a, ns, r, d) ==
    [state |-> s, action |-> a, next_state |-> ns, reward |-> r, done |-> d]

\* the transitions pushed while the memory is exercised on its own
SomeTransitions == { Transition(0, 0, 0, r, FALSE) : r \in {0, 1} }

(***************************************************************************)
(* class memory                                                            *)
(***************************************************************************)
\* deque([], maxlen = capacity)
memory_init(cap) == <<>>

\* a push that refuses the new transition when the deque is full
push_keeps_oldest(deque, maxlen, t) ==
    IF Len(deque) >= maxlen THEN deque ELSE Append(deque, t)

\* memory.push: deque.append on a deque with a maxlen drops the leftmost
\* item when the deque is full
push(deque, maxlen, t) ==
    IF maxlen = 0 THEN <<>>
    ELSE IF Len(deque) = maxlen THEN Append(Tail(deque), t)
    ELSE Append(deque, t)

\* memory.__len__
len(deque) == Len(deque)

\* all sequences of k positions of a population of n items
PositionSeqs(n, k) == [1..k -> 1..n]

Distinct(pos) == \A i, j \in DOMAIN pos : i /= j => pos[i] /= pos[j]

\* the record of one call of sample: its argument, the deque before the call
\* and what the call did
SampleCall(k, before, status, pos, after) ==
    [k |-> k, before |-> before, status |-> status, positions |-> pos,
     items |-> [i \in DOMAIN pos |-> before[pos[i]]], deque |-> after]

NoSample == SampleCall(0, <<>>, "none", <<>>, <<>>)

SampleError(deque, k) == SampleCall(k, deque, "ValueError", <<>>, deque)

SampleOk(deque, k, pos) == SampleCall(k, deque, "ok", pos, deque)

\* a sample that draws every position independently (with replacement)
sample_with_replacement(deque, k) ==
    IF k > Len(deque) THEN {SampleError(deque, k)}
    ELSE { SampleOk(deque, k, pos) : pos \in PositionSeqs(Len(deque), k) }

\* memory.sample: the outcomes of random.sample(self.memory, batch_size), which
\* raises ValueError when the sample is larger than the population and else
\* selects batch_size distinct positions
sample(deque, k) ==
    IF k > Len(deque) THEN {SampleError(deque, k)}
    ELSE { SampleOk(deque, k, pos) :
             pos \in { p \in PositionSeqs(Len(deque), k) : Distinct(p) } }

(***************************************************************************)
(* Exact rational numbers, for means and discounted values.                *)
(***************************************************************************)
Rat(n, d) == [num |-> n, den |-> d]

RatEq(x, y) == x.num * y.den = y.num * x.den

\* x > y, for positive denominators
RatGreater(x, y) == x.num * y.den > y.num * x.den

RECURSIVE SeqSum(_)
SeqSum(seq) == IF seq = <<>> THEN 0 ELSE seq[1] + SeqSum(Tail(seq))

RECURSIVE SeqMin(_)
SeqMin(seq) ==
    IF Len(seq) = 1 THEN seq[1]
    ELSE LET m == SeqMin(Tail(seq)) IN IF seq[1] < m THEN seq[1] ELSE m

(***************************************************************************)
(* agent_base.evaluate_stopping_criterion                                  *)
(***************************************************************************)
\* the slice seq[-n:] of Python: the last n items, and all of seq for n = 0
\* or n >= len(seq)
LastItems(seq, n) ==
    IF n = 0 \/ n >= Len(seq) THEN seq
    ELSE SubSeq(seq, Len(seq) - n + 1, Len(seq))

Criterion(solved, minimal, mean) ==
    [called |-> TRUE, solved |-> solved, minimal_return |-> minimal,
     mean_return |-> mean]

NoCriterion ==
    [called |-> FALSE, solved |-> FALSE, minimal_return |-> 0,
     mean_return |-> Rat(0, 1)]

\* a criterion that is satisfied by the mean alone
evaluate_mean_only(list_of_returns, n, threshold_min, threshold_mean) ==
    IF Len(list_of_returns) < n THEN Criterion(FALSE, 0, Rat(0, 1))
    ELSE LET recent_returns == LastItems(list_of_returns, n)
             minimal_return == SeqMin(recent_returns)
             mean_return == Rat(SeqSum(recent_returns), Len(recent_returns))
         IN  IF RatGreater(mean_return, Rat(threshold_mean, 1))
             THEN Criterion(TRUE, minimal_return, mean_return)
             ELSE Criterion(FALSE, minimal_return, mean_return)

evaluate_stopping_criterion(list_of_returns, n, threshold_min, threshold_mean) ==
    IF Len(list_of_returns) < n THEN Criterion(FALSE, 0, Rat(0, 1))
    ELSE LET recent_returns == LastItems(list_of_returns, n)
             minimal_return == SeqMin(recent_returns)
             mean_return == Rat(SeqSum(recent_returns), Len(recent_returns))
         IN  IF minimal_return > threshold_min
             THEN IF RatGreater(mean_return, Rat(threshold_mean, 1))
                  THEN Criterion(TRUE, minimal_return, mean_return)
                  ELSE Criterion(FALSE, minimal_return, mean_return)
             ELSE Criterion(FALSE, minimal_return, mean_return)

(***************************************************************************)
(* Python floats.  epsilon, epsilon_1 and d_epsilon are IEEE-754 doubles   *)
(* in [0, 1].  Every double in [2^-4, 1], and every difference of two of   *)
(* them, is a whole number of units of 2^-56, so a double is kept exactly  *)
(* as the pair <<hi, lo>> that stands for (hi * 2^28 + lo) * 2^-56, with   *)
(* 0 <= lo < 2^28.                                                         *)
(***************************************************************************)
Limb == 2^28

Dbl(hi, lo) == <<hi, lo>>

D0_0 == Dbl(0, 0)                       \* 0.0
D0_05 == Dbl(13421772, 214748365)       \* 0.05 = 0x1.999999999999ap-5
D0_1 == Dbl(26843545, 161061274)        \* 0.1  = 0x1.999999999999ap-4
D0_1plus == Dbl(26843545, 161061284)    \* 0.10000000000000014
D0_25 == Dbl(67108864, 0)               \* 0.25
D0_3 == Dbl(80530636, 214748364)        \* 0.3  = 0x1.3333333333333p-2
D0_5 == Dbl(134217728, 0)               \* 0.5
D1_0 == Dbl(268435456, 0)               \* 1.0

FLess(x, y) == x[1] < y[1] \/ (x[1] = y[1] /\ x[2] < y[2])

FLessEq(x, y) == ~FLess(y, x)

\* the number of low bits a value with this hi does not keep: a double has 53
\* significant bits
DroppedBits(hi) ==
    IF hi < 2^25 THEN 0
    ELSE IF hi < 2^26 THEN 1
    ELSE IF hi < 2^27 THEN 2
    ELSE IF hi < 2^28 THEN 3
    ELSE 4

\* round to nearest, ties to even, to 53 significant bits
FRound(hi, lo) ==
    LET s == DroppedBits(hi)
        q == lo \div 2^s
        r == lo % 2^s
        up == s > 0 /\ (2 * r > 2^s \/ (2 * r = 2^s /\ q % 2 = 1))
        lo2 == (IF up THEN q + 1 ELSE q) * 2^s
    IN  IF lo2 = Limb THEN Dbl(hi + 1, 0) ELSE Dbl(hi, lo2)

\* the double x - y, for x >= y
FSub(x, y) ==
    IF x[2] >= y[2] THEN FRound(x[1] - y[1], x[2] - y[2])
    ELSE FRound(x[1] - y[1] - 1, x[2] + Limb - y[2])

\* max(x, y) of Python: y only if y > x
FMax(x, y) == IF FLess(x, y) THEN y ELSE x

(***************************************************************************)
(* dqn.update_epsilon                                                      *)
(***************************************************************************)
\* a decay without the floor epsilon_1
update_epsilon_no_floor(eps, d_eps, eps_1) ==
    IF FLess(eps, d_eps) THEN D0_0 ELSE FSub(eps, d_eps)

\* max(self.epsilon - self.d_epsilon, self.epsilon_1); a negative difference
\* is below every epsilon_1 >= 0
update_epsilon(eps, d_eps, eps_1) ==
    IF FLess(eps, d_eps) THEN eps_1 ELSE FMax(FSub(eps, d_eps), eps_1)

(***************************************************************************)
(* Parameter dictionaries: functions from keys to values; the values of    *)
(* 'neural_networks', 'optimizers' and 'losses' are dictionaries of        *)
(* dictionaries.                                                           *)
(***************************************************************************)
EmptyDict == [k \in {} |-> 0]

\* str.lower on the keys that occur
Lower(key) ==
    CASE key = "N_state" -> "n_state"
      [] key = "N_ACTIONS" -> "n_actions"
      [] key = "Batch_Size" -> "batch_size"
      [] OTHER -> key

\* agent_base.make_dictionary_keys_lowercase: the top-level keys only
make_dictionary_keys_lowercase(dictionary) ==
    [k \in { Lower(key) : key \in DOMAIN dictionary } |->
        dictionary[CHOOSE key \in DOMAIN dictionary : Lower(key) = k]]

\* agent_base.merge_dictionaries: a copy of dict1, plus the items of dict2
\* whose key dict1 does not have
merge_dictionaries(dict1, dict2) ==
    [k \in DOMAIN dict1 \cup DOMAIN dict2 |->
        IF k \in DOMAIN dict1 THEN dict1[k] ELSE dict2[k]]

\* agent_base.get_default_parameters
base_default_parameters(n_st, n_act) ==
    [neural_networks |->
        [policy_net |-> [layers |-> <<n_st, 128, 32, n_act>>]],
     optimizers |->
        [policy_net |-> [optimizer |-> "RMSprop",
                         optimizer_args |-> [lr |-> "1e-3"]]],
     losses |-> [policy_net |-> [loss |-> "MSELoss"]],
     n_memory |-> 20000,
     training_stride |-> 5,
     batch_size |-> 32,
     saving_stride |-> 100,
     n_episodes_max |-> 10000,
     n_solving_episodes |-> 20,
     solving_threshold_min |-> 200,
     solving_threshold_mean |-> 230,
     discount_factor |-> "0.99"]

\* dqn.get_default_parameters
get_default_parameters(n_st, n_act) ==
    LET base == base_default_parameters(n_st, n_act)
        nets == [policy_net |-> base.neural_networks.policy_net,
                 target_net |->
                    [layers |-> base.neural_networks.policy_net.layers]]
    IN  [k \in DOMAIN base \ {"neural_networks"} |-> base[k]]
        @@ [neural_networks |-> nets,
            target_net_update_stride |-> 1,
            target_net_update_tau |-> "1e-2",
            epsilon |-> "1.0",
            epsilon_1 |-> "0.1",
            d_epsilon |-> "0.00005",
            doubledqn |-> FALSE]

\* what agent_base.__init__ leaves behind: self.parameters, the keys of
\* self.neural_networks, and "yes" or the error raised
Constructed(params, nets, status) ==
    [parameters |-> params, neural_networks |-> nets, status |-> status]

\* agent_base.__init__ (called by dqn.__init__)
agent_init(user) ==
    LET lowered == make_dictionary_keys_lowercase(user)
    IN  IF ~({"n_state", "n_actions"} \subseteq DOMAIN lowered)
        THEN Constructed(EmptyDict, {}, "RuntimeError")
        ELSE
        LET defaults == get_default_parameters(lowered["n_state"],
                                               lowered["n_actions"])
            merged == merge_dictionaries(lowered, defaults)
            nets == DOMAIN merged["neural_networks"]
        IN  IF \E key \in nets :
                  "layers" \notin DOMAIN merged["neural_networks"][key]
            THEN Constructed(merged, {}, "KeyError")
            ELSE IF \E key \in DOMAIN merged["optimizers"] :
                       \/ key \notin nets
                       \/ "optimizer_args"
                             \notin DOMAIN merged["optimizers"][key]
            THEN Constructed(merged, nets, "KeyError")
            ELSE Constructed(merged, nets, "yes")

(***************************************************************************)
(* dqn.run_optimization_step: the TD target.  A network's output for one   *)
(* row is a function from the actions 0..n_actions-1 to Q values.          *)
(***************************************************************************)
\* tensor.argmax: the first index of a maximal value
ArgMax(q) ==
    CHOOSE a \in DOMAIN q :
        /\ \A b \in DOMAIN q : q[b] <= q[a]
        /\ \A b \in DOMAIN q : b < a => q[b] < q[a]

\* tensor.max(1)[0]: the maximal value
MaxValue(q) == q[ArgMax(q)]

\* Q_next_state of one row
Q_next_state(policy_q, target_q, double) ==
    IF double THEN target_q[ArgMax(policy_q)] ELSE MaxValue(target_q)

\* float('inf') as a network output: a value above every finite output
Infinity == 2^30

\* the float results that are no numbers of their own: +inf and NaN
PlusInf == Rat(1, 0)

NaN == Rat(0, 0)

\* q * discount_factor * keep + reward in float arithmetic, keep being 0 or 1:
\* inf * 0 is NaN, NaN + reward is NaN, inf + reward is inf
Bootstrap(q, discount, keep, reward) ==
    IF q = Infinity
    THEN IF discount.num = 0 \/ keep = 0 THEN NaN ELSE PlusInf
    ELSE Rat(q * discount.num * keep + reward * discount.den, discount.den)

\* == on two float results: NaN equals nothing
TargetEq(x, y) == x /= NaN /\ y /= NaN /\ RatEq(x, y)

\* a target that bootstraps from terminal transitions too
td_target_unmasked(policy_o, target_o, rewards, dones, discount, double) ==
    [i \in DOMAIN rewards |->
        Bootstrap(Q_next_state(policy_o[i], target_o[i], double), discount,
                  1, rewards[i])]

\* a double DQN that evaluates the policy net's action with the policy net
td_target_policy_value(policy_o, target_o, rewards, dones, discount, double) ==
    [i \in DOMAIN rewards |->
        Bootstrap(IF double THEN MaxValue(policy_o[i])
                  ELSE MaxValue(target_o[i]),
                  discount, IF dones[i] THEN 0 ELSE 1, rewards[i])]

\* RHS = Q_next_state * discount_factor * (1. - done_batch) + reward_batch
td_target(policy_o, target_o, rewards, dones, discount, double) ==
    [i \in DOMAIN rewards |->
        Bootstrap(Q_next_state(policy_o[i], target_o[i], double), discount,
                  IF dones[i] THEN 0 ELSE 1, rewards[i])]

NoTarget == <<>>

(***************************************************************************)
(* dqn.act.  A network is kept as the table of its outputs: a function     *)
(* from the observations to Q vectors.                                     *)
(***************************************************************************)
Forward(net, s) == net[s]

ActCall(in_tr, eps, draw, q, action, before, after) ==
    [called |-> TRUE, in_training |-> in_tr, epsilon |-> eps, draw |-> draw,
     q |-> q, action |-> action, mode_before |-> before, mode_after |-> after]

NoAct ==
    [called |-> FALSE, in_training |-> FALSE, epsilon |-> D0_0, draw |-> D0_0,
     q |-> <<>>, action |-> 0, mode_before |-> "train", mode_after |-> "train"]

\* act(state, epsilon = eps_arg), where torch.rand(1).item() is draw and
\* torch.randint(...).item() is random_action: the action and the mode
\* policy_net is left in
act(in_tr, eps_self, eps_arg, draw, random_action, net, md, s) ==
    LET eps == IF in_tr THEN eps_self ELSE eps_arg
    IN  IF FLess(eps, draw)
        THEN ActCall(in_tr, eps, draw, Forward(net, s),
                     ArgMax(Forward(net, s)), md, "train")
        ELSE ActCall(in_tr, eps, draw, Forward(net, s), random_action, md, md)

(***************************************************************************)
(* dqn.run_optimization_step                                               *)
(***************************************************************************)
Sign(x) == IF x > 0 THEN 1 ELSE IF x < 0 THEN -1 ELSE 0

\* loss(LHS, RHS), backward and optimizer.step: the output of policy_net for
\* each (state, action) of the batch moves one unit against the sign of the
\* gradient of the squared error, the sum of LHS - RHS over its rows
optimizer_step(net, batch, RHS) ==
    [s \in DOMAIN net |->
        [a \in DOMAIN net[s] |->
            LET rows == { i \in DOMAIN batch :
                            batch[i].state = s /\ batch[i].action = a }
                gradient[I \in SUBSET rows] ==
                    IF I = {} THEN 0
                    ELSE LET i == CHOOSE j \in I : TRUE
                         IN  (net[s][a] * RHS[i].den - RHS[i].num)
                               + gradient[I \ {i}]
            IN  net[s][a] - Sign(gradient[rows])]]

\* float('nan') as a weight
NaNWeight == Infinity + 1

\* tau * p + (1 - tau) * t on weights, in float arithmetic: 0 * inf is NaN,
\* a sum with NaN is NaN, a sum with inf is inf
Blend(tau, p, t) ==
    IF \/ p = NaNWeight
       \/ t = NaNWeight
       \/ p = Infinity /\ tau.num = 0
       \/ t = Infinity /\ tau.num = tau.den
    THEN NaNWeight
    ELSE IF p = Infinity \/ t = Infinity THEN Infinity
    ELSE (tau.num * p + (tau.den - tau.num) * t) \div tau.den

\* a soft update that takes the policy net's weight whatever tau is
soft_update_target_net_hard(tau, policy, target) ==
    [s \in DOMAIN target |->
        IF s \in DOMAIN policy THEN policy[s] ELSE target[s]]

\* dqn.soft_update_target_net: tau * policy + (1 - tau) * target, for every
\* parameter of policy_net whose name target_net has too
soft_update_target_net(tau, policy, target) ==
    [s \in DOMAIN target |->
        IF s \in DOMAIN policy
        THEN [a \in DOMAIN target[s] |->
                 Blend(tau, policy[s][a], target[s][a])]
        ELSE target[s]]

\* a call of soft_update_target_net: the weights before it
SoftUpdateCall(policy, target) ==
    [called |-> TRUE, policy_net |-> policy, target_net |-> target]

NoSoftUpdate == [called |-> FALSE, policy_net |-> <<>>, target_net |-> <<>>]

\* no dictionary of get_state, no call of load_state
NoState == [saved |-> FALSE]

NoLoad ==
    [called |-> FALSE, state |-> <<>>, status |-> "ok", before |-> <<>>,
     after |-> <<>>]

\* the fields of the agent that run_optimization_step may change
AgentFields(pnet, tnet, md, eps, steps) ==
    [policy_net |-> pnet, target_net |-> tnet, mode |-> md, epsilon |-> eps,
     optimizer_steps |-> steps]

\* an optimization step that decays epsilon even when it is skipped
run_optimization_step_decaying(agent, mem, bs, batch, discount, double, d_eps, eps_1, stride, tau, epoch) ==
    IF len(mem) < bs
    THEN [agent EXCEPT !.epsilon = update_epsilon(agent.epsilon, d_eps, eps_1)]
    ELSE
    LET policy_o == [i \in DOMAIN batch |->
                        Forward(agent.policy_net, batch[i].next_state)]
        target_o == [i \in DOMAIN batch |->
                        Forward(agent.target_net, batch[i].next_state)]
        RHS == td_target(policy_o, target_o,
                         [i \in DOMAIN batch |-> batch[i].reward],
                         [i \in DOMAIN batch |-> batch[i].done],
                         discount, double)
        pnet == optimizer_step(agent.policy_net, batch, RHS)
    IN  AgentFields(pnet,
                    IF epoch % stride = 0
                    THEN soft_update_target_net(tau, pnet, agent.target_net)
                    ELSE agent.target_net,
                    "eval",
                    update_epsilon(agent.epsilon, d_eps, eps_1),
                    agent.optimizer_steps + 1)

\* an optimization step that updates the target net whatever the epoch is
run_optimization_step_every_epoch(agent, mem, bs, batch, discount, double, d_eps, eps_1, stride, tau, epoch) ==
    IF len(mem) < bs THEN agent
    ELSE
    LET policy_o == [i \in DOMAIN batch |->
                        Forward(agent.policy_net, batch[i].next_state)]
        target_o == [i \in DOMAIN batch |->
                        Forward(agent.target_net, batch[i].next_state)]
        RHS == td_target(policy_o, target_o,
                         [i \in DOMAIN batch |-> batch[i].reward],
                         [i \in DOMAIN batch |-> batch[i].done],
                         discount, double)
        pnet == optimizer_step(agent.policy_net, batch, RHS)
    IN  AgentFields(pnet,
                    soft_update_target_net(tau, pnet, agent.target_net),
                    "eval",
                    update_epsilon(agent.epsilon, d_eps, eps_1),
                    agent.optimizer_steps + 1)

\* run_optimization_step(epoch) on the batch that sample drew
run_optimization_step(agent, mem, bs, batch, discount, double, d_eps, eps_1, stride, tau, epoch) ==
    IF len(mem) < bs THEN agent
    ELSE
    LET policy_o == [i \in DOMAIN batch |->
                        Forward(agent.policy_net, batch[i].next_state)]
        target_o == [i \in DOMAIN batch |->
                        Forward(agent.target_net, batch[i].next_state)]
        RHS == td_target(policy_o, target_o,
                         [i \in DOMAIN batch |-> batch[i].reward],
                         [i \in DOMAIN batch |-> batch[i].done],
                         discount, double)
        pnet == optimizer_step(agent.policy_net, batch, RHS)
    IN  AgentFields(pnet,
                    IF epoch % stride = 0
                    THEN soft_update_target_net(tau, pnet, agent.target_net)
                    ELSE agent.target_net,
                    "eval",
                    update_epsilon(agent.epsilon, d_eps, eps_1),
                    agent.optimizer_steps + 1)

\* a call run_optimization_step(epoch): whether it returned at the guard,
\* and the agent's fields before and after it
OptCall(epoch, skipped, before, after) ==
    [called |-> TRUE, epoch |-> epoch, skipped |-> skipped,
     before |-> before, after |-> after]

NoOptimization ==
    [called |-> FALSE, epoch |-> 0, skipped |-> FALSE,
     before |-> <<>>, after |-> <<>>]

(***************************************************************************)
(* agent_base.get_state and the records of agent_base.train                *)
(***************************************************************************)
\* get_state: self.parameters and copies of the state_dict of every network
\* and every optimizer
get_state(params, pnet, tnet, steps) ==
    [parameters |-> params, policy_net |-> pnet, target_net |-> tnet,
     policy_net_optimizer |-> steps]

\* check_parameter_dictionary_compatibility: "ok", or the error raised.  A
\* missing key is a KeyError, which the method catches wherever it occurs;
\* error_string is a tuple, so error_string.format raises AttributeError
check_parameter_dictionary_compatibility(n_st, n_act, params) ==
    IF "n_state" \notin DOMAIN params THEN "ok"
    ELSE IF params["n_state"] /= n_st THEN "AttributeError"
    ELSE IF "n_actions" \notin DOMAIN params THEN "ok"
    ELSE IF params["n_actions"] /= n_act THEN "AttributeError"
    ELSE "ok"

\* the fields of the agent that load_state may change
LiveAgent(n_st, n_act, params, pnet, tnet, steps, mem, cap, eps, eps_1, d_eps, bs, stride, tau, discount, double, in_tr, md) ==
    [n_state |-> n_st, n_actions |-> n_act, parameters |-> params,
     policy_net |-> pnet, target_net |-> tnet, optimizer_steps |-> steps,
     memory |-> mem, capacity |-> cap, epsilon |-> eps, epsilon_1 |-> eps_1,
     d_epsilon |-> d_eps, batch_size |-> bs,
     target_net_update_stride |-> stride, target_net_update_tau |-> tau,
     discount_factor |-> discount, doubleDQN |-> double,
     in_training |-> in_tr, mode |-> md]

\* the weights initialize_neural_networks gives a new network: q everywhere
FreshNet(n_act, q) == [s \in Obs |-> [a \in 0..(n_act - 1) |-> q]]

\* an initialization that leaves epsilon at its final value
rebuilt_agent_final_epsilon(merged, fresh) ==
    LiveAgent(merged["n_state"], merged["n_actions"], merged,
              FreshNet(merged["n_actions"], fresh),
              FreshNet(merged["n_actions"], fresh), 0,
              memory_init(merged["n_memory"]), merged["n_memory"],
              merged["epsilon_1"], merged["epsilon_1"], merged["d_epsilon"],
              merged["batch_size"], merged["target_net_update_stride"],
              merged["target_net_update_tau"], merged["discount_factor"],
              merged["doubledqn"], FALSE, "train")

\* the agent set_parameters and the initialize_ methods leave behind, merged
\* being self.parameters and fresh the value of the new weights
rebuilt_agent(merged, fresh) ==
    LiveAgent(merged["n_state"], merged["n_actions"], merged,
              FreshNet(merged["n_actions"], fresh),
              FreshNet(merged["n_actions"], fresh), 0,
              memory_init(merged["n_memory"]), merged["n_memory"],
              merged["epsilon"], merged["epsilon_1"], merged["d_epsilon"],
              merged["batch_size"], merged["target_net_update_stride"],
              merged["target_net_update_tau"], merged["discount_factor"],
              merged["doubledqn"], FALSE, "train")

\* the outcome of __init__ on a live agent, lowered being the parameters
\* with lowercase keys, built what agent_base.__init__ makes of them and
\* rebuilt the agent of a construction that went through
initialized(agent, lowered, built, rebuilt) ==
    IF built.status = "RuntimeError"
    THEN \* self.n_state is assigned before parameters['n_actions'] fails
         [status |-> "RuntimeError",
          agent |-> IF "n_state" \in DOMAIN lowered
                    THEN [agent EXCEPT !.n_state = lowered["n_state"]]
                    ELSE agent]
    ELSE IF built.status = "KeyError"
    THEN \* initialize_neural_networks or initialize_optimizers fails
         \* after set_parameters: in_training is not reset
         [status |-> "KeyError",
          agent |-> [rebuilt EXCEPT !.in_training = agent.in_training]]
    ELSE [status |-> "ok", agent |-> rebuilt]

\* self.__init__(parameters) on a live agent, fresh being the value of the
\* new weights: set_initialization_parameters, set_parameters and the
\* initialize_ methods
reinitialize(agent, params, fresh) ==
    initialized(agent, make_dictionary_keys_lowercase(params),
                agent_init(params),
                rebuilt_agent(agent_init(params).parameters, fresh))

\* a load_state that keeps the weights of the new networks
load_state_parameters_only(agent, st, fresh) ==
    LET check == check_parameter_dictionary_compatibility(
                     agent.n_state, agent.n_actions, st["parameters"])
    IN  IF check /= "ok" THEN [status |-> check, agent |-> agent]
        ELSE reinitialize(agent, st["parameters"], fresh)

\* the loops of load_state over the networks and the optimizers, init being
\* the outcome of self.__init__: load_state_dict of what the state holds
load_state_dicts(init, st) ==
    IF init.status /= "ok" THEN init
    ELSE [status |-> "ok",
          agent |->
             [init.agent EXCEPT
                 !.policy_net =
                     IF "policy_net" \in DOMAIN st
                     THEN st["policy_net"] ELSE @,
                 !.target_net =
                     IF "target_net" \in DOMAIN st
                     THEN st["target_net"] ELSE @,
                 !.optimizer_steps =
                     IF "policy_net_optimizer" \in DOMAIN st
                     THEN st["policy_net_optimizer"] ELSE @]]

\* agent_base.load_state(state): the status and the agent afterwards
load_state(agent, st, fresh) ==
    LET check == check_parameter_dictionary_compatibility(
                     agent.n_state, agent.n_actions, st["parameters"])
    IN  IF check /= "ok" THEN [status |-> check, agent |-> agent]
        ELSE load_state_dicts(reinitialize(agent, st["parameters"], fresh), st)

\* a call of load_state: its argument, its outcome, the agent before and
\* after it
LoadCall(st, status, before, after) ==
    [called |-> TRUE, state |-> st, status |-> status, before |-> before,
     after |-> after]

\* the dictionary training_results of train
TrainingResults(durations, returns, epochs, steps, completed) ==
    [bound |-> TRUE,
     episode_durations |-> durations, epsiode_returns |-> returns,
     n_training_epochs |-> epochs, n_steps_simulated |-> steps,
     training_completed |-> completed]

\* train's local training_results before its first assignment
NoResults ==
    [bound |-> FALSE,
     episode_durations |-> <<>>, epsiode_returns |-> <<>>,
     n_training_epochs |-> <<>>, n_steps_simulated |-> <<>>,
     training_completed |-> FALSE]

\* a file that was not written, a call that has not returned
NoFile == [written |-> FALSE]

Written(content) == [written |-> TRUE, content |-> content]

\* a stride that is one step too long
training_due_off_by_one(step_count, stride) == step_count % (stride + 1) = 0

\* an optimization step after every time step
training_due_every_step(step_count, stride) == step_count >= 0

\* line 307: train calls run_optimization_step after this time step
training_due(step_count, stride) == step_count % stride = 0

\* a checkpoint at the multiples of saving_stride only
checkpoint_due_stride_only(episode, stride, complete, episodes_max) ==
    episode % stride = 0

\* line 332: train saves at the end of this episode
checkpoint_due(episode, stride, complete, episodes_max) ==
    \/ episode % stride = 0
    \/ complete
    \/ episode = episodes_max - 1

\* the outcomes of environment.step(action) at time step i of an episode:
\* next_state, reward, terminated, truncated
EnvironmentStep(s, action, i) ==
    { [next_state |-> IF action = 0 THEN s ELSE (s + 1) % (MaxObs + 1),
       reward |-> IF action = 0 THEN 1 ELSE 0,
       terminated |-> term, truncated |-> i + 1 >= MaxEpisodeLength] :
        term \in BOOLEAN }

\* environment.step(action) of an environment that does not end the episode
EndlessStep(s, action) ==
    { [next_state |-> IF action = 0 THEN s ELSE (s + 1) % (MaxObs + 1),
       reward |-> IF action = 0 THEN 1 ELSE 0,
       terminated |-> FALSE, truncated |-> FALSE] }

\* endless_episode of an environment that ends every episode
NoEndless == -1

(***************************************************************************)
(* The values of the variables a specification does not use.               *)
(***************************************************************************)
MemoryIdle ==
    /\ capacity = 0
    /\ memory = <<>>
    /\ pushed = <<>>
    /\ sampled = NoSample

StopIdle ==
    /\ n_solving_episodes = 1
    /\ solving_threshold_min = 0
    /\ solving_threshold_mean = 0
    /\ episode_returns = <<>>
    /\ criterion = NoCriterion

EpsilonIdle ==
    /\ epsilon = D0_0
    /\ epsilon_1 = D0_0
    /\ d_epsilon = D0_0
    /\ epsilon_0 = D0_0
    /\ epsilon_before = D0_0
    /\ decay_steps = 0

InitIdle ==
    /\ user_parameters = EmptyDict
    /\ parameters = EmptyDict
    /\ neural_networks = {}
    /\ constructed = "no"

TargetIdle ==
    /\ n_actions = 0
    /\ discount_factor = Rat(0, 1)
    /\ doubleDQN = FALSE
    /\ policy_out = <<>>
    /\ target_out = <<>>
    /\ reward_batch = <<>>
    /\ done_batch = <<>>
    /\ rhs = [double \in BOOLEAN |-> NoTarget]

AgentIdle ==
    /\ in_training = FALSE
    /\ mode = "train"
    /\ policy_net = <<>>
    /\ target_net = <<>>
    /\ batch_size = 0
    /\ target_net_update_stride = 1
    /\ target_net_update_tau = Rat(0, 1)
    /\ optimizer_steps = 0
    /\ acted = NoAct
    /\ optimized = NoOptimization

TrainIdle ==
    /\ training_stride = 1
    /\ saving_stride = 1
    /\ n_episodes_max = 0
    /\ model_filename = FALSE
    /\ training_filename = FALSE
    /\ pc = "idle"
    /\ state = 0
    /\ n_episode = 0
    /\ i_step = 0
    /\ step_counter = 0
    /\ epoch_counter = 0
    /\ current_total_reward = 0
    /\ training_complete = FALSE
    /\ episode_durations = <<>>
    /\ steps_simulated = <<>>
    /\ training_epochs = <<>>
    /\ output_state_dicts = EmptyDict
    /\ training_results = NoResults
    /\ model_file = NoFile
    /\ results_file = NoFile
    /\ returned = NoFile
    /\ invocations = 0
    /\ endless_episode = NoEndless

LoadIdle ==
    /\ n_state = 0
    /\ saved_state = NoState
    /\ loaded = NoLoad
    /\ soft_updated = NoSoftUpdate

(***************************************************************************)
(* The memory on its own: built with some capacity, then pushed to and     *)
(* sampled from in any order.                                              *)
(***************************************************************************)
MemoryInit ==
    /\ capacity \in 0..MaxCapacity
    /\ memory = memory_init(capacity)
    /\ pushed = <<>>
    /\ sampled = NoSample
    /\ StopIdle
    /\ EpsilonIdle
    /\ InitIdle
    /\ TargetIdle
    /\ AgentIdle
    /\ TrainIdle
    /\ LoadIdle

Push ==
    /\ Len(pushed) < MaxPushes
    /\ \E t \in SomeTransitions :
          /\ memory' = push(memory, capacity, t)
          /\ pushed' = Append(pushed, t)
    /\ sampled' = NoSample
    /\ UNCHANGED <<capacity, stopVars, epsVars, initVars, tdVars, agentVars, trainVars, loadVars>>

Sample ==
    /\ \E k \in 0..MaxBatch :
          \E outcome \in sample(memory, k) :
             /\ sampled' = outcome
             /\ memory' = outcome.deque
    /\ UNCHANGED <<capacity, pushed, stopVars, epsVars, initVars, tdVars, agentVars, trainVars, loadVars>>

MemoryNext == Push \/ Sample

SpecMemory == MemoryInit /\ [][MemoryNext]_vars

(***************************************************************************)
(* The stopping criterion on its own: an agent with some n_solving_episodes *)
(* and thresholds, a list of episode returns that grows, and evaluations   *)
(* of the criterion on it.                                                 *)
(***************************************************************************)
StopInit ==
    /\ n_solving_episodes \in 1..MaxSolving
    /\ solving_threshold_min \in {0, 1}
    /\ solving_threshold_mean \in {1, 2}
    /\ episode_returns = <<>>
    /\ criterion = NoCriterion
    /\ MemoryIdle
    /\ EpsilonIdle
    /\ InitIdle
    /\ TargetIdle
    /\ AgentIdle
    /\ TrainIdle
    /\ LoadIdle

RecordReturn ==
    /\ Len(episode_returns) < MaxReturns
    /\ \E r \in 0..MaxReturn : episode_returns' = Append(episode_returns, r)
    /\ criterion' = NoCriterion
    /\ UNCHANGED <<n_solving_episodes, solving_threshold_min,
                   solving_threshold_mean, memVars, epsVars, initVars,
                   tdVars, agentVars, trainVars, loadVars>>

Evaluate ==
    /\ criterion' = evaluate_stopping_criterion(episode_returns,
                        n_solving_episodes, solving_threshold_min,
                        solving_threshold_mean)
    /\ UNCHANGED <<n_solving_episodes, solving_threshold_min,
                   solving_threshold_mean, episode_returns, memVars,
                   epsVars, initVars, tdVars, agentVars, trainVars, loadVars>>

StopNext == RecordReturn \/ Evaluate

SpecStop == StopInit /\ [][StopNext]_vars

(***************************************************************************)
(* The epsilon schedule on its own: dqn.set_parameters reads epsilon,      *)
(* epsilon_1 and d_epsilon from the parameters, and update_epsilon is      *)
(* called again and again.  epsilon starts at or above its final value     *)
(* epsilon_1, and d_epsilon is positive.                                   *)
(***************************************************************************)
EpsilonInit ==
    /\ epsilon_0 \in {D1_0, D0_5}
    /\ epsilon_1 \in {D0_1, D0_25}
    /\ d_epsilon \in {D0_1, D0_05, D0_3}
    /\ epsilon = epsilon_0
    /\ epsilon_before = epsilon_0
    /\ decay_steps = 0
    /\ MemoryIdle
    /\ StopIdle
    /\ InitIdle
    /\ TargetIdle
    /\ AgentIdle
    /\ TrainIdle
    /\ LoadIdle

UpdateEpsilon ==
    /\ decay_steps < MaxDecaySteps
    /\ epsilon' = update_epsilon(epsilon, d_epsilon, epsilon_1)
    /\ epsilon_before' = epsilon
    /\ decay_steps' = decay_steps + 1
    /\ UNCHANGED <<epsilon_1, d_epsilon, epsilon_0, memVars, stopVars, initVars,
                   tdVars, agentVars, trainVars, loadVars>>

EpsilonNext == UpdateEpsilon

SpecEpsilon == EpsilonInit /\ [][EpsilonNext]_vars

(***************************************************************************)
(* The constructor on its own: a dqn agent is built from a dictionary of   *)
(* the user.                                                               *)
(***************************************************************************)
UserLayers == [layers |-> <<2, 16, 2>>]

UserDimensions ==
    { [n_state |-> 2, n_actions |-> 2],
      ("N_state" :> 2) @@ ("N_ACTIONS" :> 2),
      [n_state |-> 2] }

UserNetworks ==
    { EmptyDict,
      [neural_networks |-> [policy_net |-> UserLayers]],
      [neural_networks |-> [target_net |-> UserLayers]],
      [neural_networks |-> [policy_net |-> UserLayers,
                            target_net |-> UserLayers]],
      [neural_networks |-> [policy_net |-> EmptyDict]] }

UserOptimizers ==
    { EmptyDict,
      [optimizers |-> [policy_net |-> [optimizer |-> "RMSprop"]]],
      [optimizers |-> [policy_net |-> [optimizer_args |-> [lr |-> "1e-4"]]]],
      [optimizers |-> [policy_net |-> [optimizer |-> "RMSprop",
                                       optimizer_args |-> [lr |-> "1e-4"]]]] }

UserLosses ==
    { EmptyDict,
      [losses |-> [policy_net |-> [loss |-> "MSELoss"]]],
      [losses |-> EmptyDict] }

UserScalars ==
    { EmptyDict, [batch_size |-> 16], ("Batch_Size" :> 16) }

ConstructInit ==
    /\ user_parameters \in
          { d @@ n @@ o @@ l @@ x :
              d \in UserDimensions, n \in UserNetworks, o \in UserOptimizers,
              l \in UserLosses, x \in UserScalars }
    /\ parameters = EmptyDict
    /\ neural_networks = {}
    /\ constructed = "no"
    /\ MemoryIdle
    /\ StopIdle
    /\ EpsilonIdle
    /\ TargetIdle
    /\ AgentIdle
    /\ TrainIdle
    /\ LoadIdle

Construct ==
    /\ constructed = "no"
    /\ LET agent == agent_init(user_parameters)
       IN  /\ parameters' = agent.parameters
           /\ neural_networks' = agent.neural_networks
           /\ constructed' = agent.status
    /\ UNCHANGED <<user_parameters, memVars, stopVars, epsVars, tdVars,
                   agentVars, trainVars, loadVars>>

ConstructNext == Construct

SpecConstruct == ConstructInit /\ [][ConstructNext]_vars

(***************************************************************************)
(* The TD target on its own: a batch of one or two rows (the outputs of    *)
(* the two networks for the row's next_state, its reward and its done      *)
(* flag), and the target computed for it without and with doubleDQN.       *)
(***************************************************************************)
QVectors(n) == [0..(n - 1) -> 0..MaxQ]

\* the outputs of a network whose weights have diverged: some are +inf
DivergedQVectors(n) == [0..(n - 1) -> (0..MaxQ) \cup {Infinity}]

TargetInit ==
    /\ n_actions = 2
    /\ discount_factor \in {Rat(0, 1), Rat(99, 100)}
    /\ doubleDQN = FALSE
    /\ \E rows \in {1, 2} :
          /\ policy_out \in [1..rows -> QVectors(n_actions)]
          /\ target_out \in
                { t \in [1..rows -> DivergedQVectors(n_actions)] :
                    \A i \in 2..rows : t[i] \in QVectors(n_actions) }
          /\ reward_batch \in [1..rows -> {0, 1}]
          /\ done_batch \in [1..rows -> BOOLEAN]
    /\ rhs = [double \in BOOLEAN |-> NoTarget]
    /\ MemoryIdle
    /\ StopIdle
    /\ EpsilonIdle
    /\ InitIdle
    /\ AgentIdle
    /\ TrainIdle
    /\ LoadIdle

ComputeTarget ==
    /\ \E double \in BOOLEAN :
          /\ doubleDQN' = double
          /\ rhs' = [rhs EXCEPT ![double] =
                       td_target(policy_out, target_out, reward_batch,
                                 done_batch, discount_factor, double)]
    /\ UNCHANGED <<n_actions, discount_factor, policy_out, target_out,
                   reward_batch, done_batch, memVars, stopVars, epsVars,
                   initVars, agentVars, trainVars, loadVars>>

TargetNext == ComputeTarget

SpecTarget == TargetInit /\ [][TargetNext]_vars

(***************************************************************************)
(* The agent outside train: a constructed dqn agent whose methods act,     *)
(* add_memory and run_optimization_step are called in any order.           *)
(***************************************************************************)
Actions == 0..(n_actions - 1)

\* a network that gives every observation the same Q vector
ConstantNet(q0, q1) == [s \in Obs |-> (0 :> q0) @@ (1 :> q1)]

\* torch.rand(1).item() is in [0, 1); these three values stand for it
Draws == {D0_0, D0_25, D0_5}

AgentInit ==
    /\ in_training = FALSE
    /\ mode = "train"
    /\ policy_net \in {ConstantNet(0, 0), ConstantNet(0, 1)}
    /\ target_net = ConstantNet(1, 0)
    /\ batch_size = 2
    /\ target_net_update_stride = 2
    /\ target_net_update_tau \in {Rat(0, 1), Rat(1, 1)}
    /\ optimizer_steps = 0
    /\ acted = NoAct
    /\ optimized = NoOptimization
    /\ capacity = 2
    /\ memory = memory_init(capacity)
    /\ pushed = <<>>
    /\ sampled = NoSample
    /\ epsilon_0 = D1_0
    /\ epsilon_1 = D0_1
    /\ d_epsilon = D0_3
    /\ epsilon = epsilon_0
    /\ epsilon_before = epsilon_0
    /\ decay_steps = 0
    /\ n_actions = 2
    /\ discount_factor = Rat(99, 100)
    /\ doubleDQN \in BOOLEAN
    /\ policy_out = <<>>
    /\ target_out = <<>>
    /\ reward_batch = <<>>
    /\ done_batch = <<>>
    /\ rhs = [double \in BOOLEAN |-> NoTarget]
    /\ StopIdle
    /\ InitIdle
    /\ TrainIdle
    /\ LoadIdle

\* act(state) or act(state, epsilon = 0.5)
Act ==
    /\ \E s \in Obs, eps_arg \in {D0_0, D0_5}, draw \in Draws,
          random_action \in Actions :
          LET call == act(in_training, epsilon, eps_arg, draw, random_action,
                          policy_net, mode, s)
          IN  /\ acted' = call
              /\ mode' = call.mode_after
    /\ optimized' = NoOptimization
    /\ UNCHANGED <<in_training, policy_net, target_net, batch_size,
                   target_net_update_stride, target_net_update_tau,
                   optimizer_steps, memVars, stopVars, epsVars, initVars,
                   tdVars, trainVars, loadVars>>

\* add_memory(memory)
AddMemory ==
    /\ \E s \in Obs :
          memory' = push(memory, capacity, Transition(s, s % 2, 0, 1, s > 0))
    /\ acted' = NoAct
    /\ optimized' = NoOptimization
    /\ UNCHANGED <<capacity, pushed, sampled, in_training, mode, policy_net,
                   target_net, batch_size, target_net_update_stride,
                   target_net_update_tau, optimizer_steps, stopVars, epsVars,
                   initVars, tdVars, trainVars, loadVars>>

\* run_optimization_step(epoch)
RunOptimizationStep ==
    /\ optimizer_steps < MaxOptSteps
    /\ \E epoch \in 0..1 :
          \E drawn \in IF len(memory) < batch_size THEN {NoSample}
                        ELSE sample(memory, batch_size) :
             LET before == AgentFields(policy_net, target_net, mode,
                                       epsilon, optimizer_steps)
                 after == run_optimization_step(
                              before, memory, batch_size, drawn.items,
                              discount_factor, doubleDQN, d_epsilon,
                              epsilon_1, target_net_update_stride,
                              target_net_update_tau, epoch)
             IN  /\ optimized' = OptCall(epoch, len(memory) < batch_size,
                                         before, after)
                 /\ policy_net' = after.policy_net
                 /\ target_net' = after.target_net
                 /\ mode' = after.mode
                 /\ epsilon' = after.epsilon
                 /\ optimizer_steps' = after.optimizer_steps
                 /\ epsilon_before' =
                       IF len(memory) < batch_size THEN epsilon_before
                       ELSE epsilon
                 /\ decay_steps' =
                       IF len(memory) < batch_size THEN decay_steps
                       ELSE decay_steps + 1
    /\ acted' = NoAct
    /\ UNCHANGED <<memVars, in_training, batch_size, target_net_update_stride,
                   target_net_update_tau, epsilon_0, epsilon_1, d_epsilon,
                   stopVars, initVars, tdVars, trainVars, loadVars>>

AgentNext == Act \/ AddMemory \/ RunOptimizationStep

SpecAgent == AgentInit /\ [][AgentNext]_vars

(***************************************************************************)
(* agent_base.train on a constructed dqn agent.  pc is the place train has *)
(* reached: "reset" before environment.reset() of episode n_episode,       *)
(* "step" before a time step, "save" after the time steps of an episode,   *)
(* "returned" and "raised" once train is left.                             *)
(***************************************************************************)
TrainSetup ==
    /\ in_training = FALSE
    /\ mode = "train"
    /\ policy_net = ConstantNet(0, 1)
    /\ target_net = ConstantNet(1, 0)
    /\ batch_size = 2
    /\ target_net_update_stride = 2
    /\ target_net_update_tau \in {Rat(0, 1), Rat(1, 1)}
    /\ optimizer_steps = 0
    /\ acted = NoAct
    /\ optimized = NoOptimization
    /\ capacity = 2
    /\ memory = memory_init(capacity)
    /\ pushed = <<>>
    /\ sampled = NoSample
    /\ epsilon_0 = D1_0
    /\ epsilon_1 = D0_1
    /\ d_epsilon = D0_3
    /\ epsilon = epsilon_0
    /\ epsilon_before = epsilon_0
    /\ decay_steps = 0
    /\ n_actions = 2
    /\ discount_factor = Rat(99, 100)
    /\ doubleDQN = FALSE
    /\ policy_out = <<>>
    /\ target_out = <<>>
    /\ reward_batch = <<>>
    /\ done_batch = <<>>
    /\ rhs = [double \in BOOLEAN |-> NoTarget]
    /\ n_solving_episodes = 2
    /\ solving_threshold_min = 0
    /\ solving_threshold_mean = 0
    /\ episode_returns = <<>>
    /\ criterion = NoCriterion
    /\ InitIdle
    /\ LoadIdle
    /\ training_stride \in {1, 2}
    /\ saving_stride = 2
    /\ n_episodes_max \in {0, 3}
    /\ model_filename \in BOOLEAN
    /\ training_filename = model_filename
    /\ pc = "idle"
    /\ state = 0
    /\ n_episode = 0
    /\ i_step = 0
    /\ step_counter = 0
    /\ epoch_counter = 0
    /\ current_total_reward = 0
    /\ training_complete = FALSE
    /\ episode_durations = <<>>
    /\ steps_simulated = <<>>
    /\ training_epochs = <<>>
    /\ output_state_dicts = EmptyDict
    /\ training_results = NoResults
    /\ model_file = NoFile
    /\ results_file = NoFile
    /\ returned = NoFile
    /\ invocations = 0

\* the environment ends every episode
TrainInit ==
    /\ TrainSetup
    /\ endless_episode = NoEndless

\* the agent's fields and the configuration that train does not change
TrainFrame ==
    UNCHANGED <<capacity, sampled, epsilon_0, epsilon_1, d_epsilon,
                n_solving_episodes, solving_threshold_min,
                solving_threshold_mean, initVars, tdVars, batch_size,
                target_net_update_stride, target_net_update_tau,
                training_stride, saving_stride, n_episodes_max,
                model_filename, training_filename, endless_episode,
                loadVars>>

\* lines 353-359: the warning, self.in_training = False and the return of
\* training_results, which is unbound if no episode was run
LeaveTrain(results) ==
    /\ in_training' = FALSE
    /\ training_results' = results
    /\ IF results.bound
       THEN pc' = "returned" /\ returned' = Written(results)
       ELSE pc' = "raised" /\ returned' = Written("UnboundLocalError")

\* lines 257-286: train is entered
TrainStart ==
    /\ pc = "idle"
    /\ training_complete' = FALSE
    /\ step_counter' = 0
    /\ epoch_counter' = 0
    /\ episode_durations' = <<>>
    /\ episode_returns' = <<>>
    /\ steps_simulated' = <<>>
    /\ training_epochs' = <<>>
    /\ output_state_dicts' = EmptyDict
    /\ invocations' = 0
    /\ n_episode' = 0
    /\ IF n_episodes_max > 0
       THEN /\ in_training' = TRUE
            /\ pc' = "reset"
            /\ UNCHANGED <<training_results, returned>>
       ELSE LeaveTrain(training_results)
    /\ UNCHANGED <<memory, pushed, epsilon, epsilon_before, decay_steps, criterion,
                   mode, policy_net, target_net, optimizer_steps, acted,
                   optimized, state, i_step, current_total_reward,
                   model_file, results_file>>
    /\ TrainFrame

\* lines 288-291: environment.reset()
TrainReset ==
    /\ pc = "reset"
    /\ state' = 0
    /\ current_total_reward' = 0
    /\ i_step' = 0
    /\ pc' = "step"
    /\ UNCHANGED <<memory, pushed, epsilon, epsilon_before, decay_steps,
                   episode_returns, criterion, in_training, mode, policy_net,
                   target_net, optimizer_steps, acted, optimized, n_episode,
                   step_counter, epoch_counter, training_complete,
                   episode_durations, steps_simulated, training_epochs,
                   output_state_dicts, training_results, model_file,
                   results_file, returned, invocations>>
    /\ TrainFrame

\* lines 293-329: one time step
TrainStep ==
    /\ pc = "step"
    /\ n_episode = endless_episode => i_step < MaxEndlessSteps
    /\ \E draw \in Draws, random_action \in Actions :
       LET call == act(in_training, epsilon, D0_0, draw, random_action,
                       policy_net, mode, state)
       IN
       \E env \in IF n_episode = endless_episode
                 THEN EndlessStep(state, call.action)
                 ELSE EnvironmentStep(state, call.action, i_step) :
       LET done == env.terminated \/ env.truncated
           transition == Transition(state, call.action, env.next_state,
                                    env.reward, done)
           mem == push(memory, capacity, transition)
           optimize == training_due(step_counter + 1, training_stride)
           skipped == len(mem) < batch_size
           returns == Append(episode_returns,
                             current_total_reward + env.reward)
       IN
       \E drawn \in IF optimize /\ ~skipped THEN sample(mem, batch_size)
                     ELSE {NoSample} :
       LET before == AgentFields(policy_net, target_net, call.mode_after,
                                 epsilon, optimizer_steps)
           after == IF optimize
                    THEN run_optimization_step(before, mem, batch_size,
                             drawn.items, discount_factor, doubleDQN,
                             d_epsilon, epsilon_1, target_net_update_stride,
                             target_net_update_tau, epoch_counter)
                    ELSE before
       IN  /\ acted' = NoAct
           /\ optimized' = IF optimize
                           THEN OptCall(epoch_counter, skipped, before, after)
                           ELSE NoOptimization
           /\ invocations' =
                 IF optimize THEN invocations + 1 ELSE invocations
           /\ step_counter' = step_counter + 1
           /\ memory' = mem
           /\ pushed' = Append(pushed, transition)
           /\ state' = env.next_state
           /\ policy_net' = after.policy_net
           /\ target_net' = after.target_net
           /\ mode' = after.mode
           /\ epsilon' = after.epsilon
           /\ optimizer_steps' = after.optimizer_steps
           /\ epsilon_before' =
                 IF optimize /\ ~skipped THEN epsilon ELSE epsilon_before
           /\ decay_steps' =
                 IF optimize /\ ~skipped THEN decay_steps + 1
                 ELSE decay_steps
           /\ epoch_counter' =
                 IF optimize THEN epoch_counter + 1 ELSE epoch_counter
           /\ current_total_reward' = current_total_reward + env.reward
           /\ IF done
              THEN /\ episode_durations' = Append(episode_durations, i_step + 1)
                   /\ episode_returns' = returns
                   /\ steps_simulated' =
                         Append(steps_simulated, step_counter')
                   /\ training_epochs' =
                         Append(training_epochs, epoch_counter')
                   /\ criterion' = evaluate_stopping_criterion(returns,
                                       n_solving_episodes,
                                       solving_threshold_min,
                                       solving_threshold_mean)
                   /\ training_complete' = criterion'.solved
                   \* the record of the last checkpoint holds these lists
                   /\ training_results' =
                         IF training_results.bound
                         THEN TrainingResults(episode_durations', returns,
                                  training_epochs', steps_simulated',
                                  training_results.training_completed)
                         ELSE training_results
                   /\ pc' = "save"
                   /\ UNCHANGED i_step
              ELSE /\ i_step' = i_step + 1
                   /\ UNCHANGED <<episode_durations, episode_returns,
                                  steps_simulated, training_epochs, criterion,
                                  training_complete, training_results, pc>>
    /\ UNCHANGED <<in_training, n_episode, output_state_dicts,
                   model_file, results_file, returned>>
    /\ TrainFrame

\* lines 332-359: the checkpoint at the end of an episode, then the next
\* episode or the end of train
TrainSave ==
    /\ pc = "save"
    /\ LET save == checkpoint_due(n_episode, saving_stride,
                                  training_complete, n_episodes_max)
           dicts == IF save /\ model_filename
                    THEN (n_episode :> get_state(parameters, policy_net,
                                                 target_net, optimizer_steps))
                         @@ output_state_dicts
                    ELSE output_state_dicts
           results == IF save
                      THEN TrainingResults(episode_durations, episode_returns,
                                           training_epochs, steps_simulated,
                                           FALSE)
                      ELSE training_results
       IN  /\ output_state_dicts' = dicts
           /\ model_file' = IF save /\ model_filename THEN Written(dicts)
                            ELSE model_file
           /\ results_file' = IF save /\ training_filename
                              THEN Written(results)
                              ELSE results_file
           /\ IF training_complete
              THEN /\ LeaveTrain([results EXCEPT !.training_completed = TRUE])
                   /\ UNCHANGED n_episode
              ELSE IF n_episode + 1 < n_episodes_max
              THEN /\ n_episode' = n_episode + 1
                   /\ training_results' = results
                   /\ pc' = "reset"
                   /\ UNCHANGED <<in_training, returned>>
              ELSE /\ LeaveTrain(results)
                   /\ UNCHANGED n_episode
    /\ UNCHANGED <<memory, pushed, epsilon, epsilon_before, decay_steps,
                   episode_returns, criterion, mode, policy_net, target_net,
                   optimizer_steps, acted, optimized, state, i_step,
                   step_counter, epoch_counter, current_total_reward,
                   training_complete, episode_durations, steps_simulated,
                   training_epochs, invocations>>
    /\ TrainFrame

\* an exception of environment.reset(), of environment.step(action) or of
\* torch.save leaves train
TrainRaise ==
    /\ pc \in {"reset", "step", "save"}
    /\ pc' = "raised"
    /\ returned' = Written("Exception")
    /\ UNCHANGED <<memVars, stopVars, epsVars, initVars, tdVars, agentVars,
                   loadVars, training_stride, saving_stride, n_episodes_max,
                   model_filename, training_filename, state, n_episode,
                   i_step, step_counter, epoch_counter, current_total_reward,
                   training_complete, episode_durations, steps_simulated,
                   training_epochs, output_state_dicts, training_results,
                   model_file, results_file, invocations, endless_episode>>

TrainNext == TrainStart \/ TrainReset \/ TrainStep \/ TrainSave \/ TrainRaise

SpecTrain == TrainInit /\ [][TrainNext]_vars

(***************************************************************************)
(* agent_base.train run to its end: the environment raises nothing and     *)
(* either ends every episode or never ends the episode endless_episode.    *)
(* train is one call that runs on until it is left, so every step of it    *)
(* that can be taken is taken.                                             *)
(***************************************************************************)
TrainLiveInit ==
    /\ TrainSetup
    /\ endless_episode \in {NoEndless, 0, 1}

TrainLiveNext == TrainStart \/ TrainReset \/ TrainStep \/ TrainSave

SpecTrainLive ==
    TrainLiveInit /\ [][TrainLiveNext]_vars /\ WF_vars(TrainLiveNext)

(***************************************************************************)
(* get_state and load_state: a constructed dqn agent that is trained by    *)
(* add_memory and run_optimization_step, whose state is taken with         *)
(* get_state, and that is handed its own state or a state with other       *)
(* parameters by load_state.                                               *)
(***************************************************************************)
\* the parameters the agent of this specification is built with
LoadScalars ==
    [n_memory |-> 2, batch_size |-> 2, epsilon |-> D1_0, epsilon_1 |-> D0_1,
     d_epsilon |-> D0_3, target_net_update_stride |-> 2,
     target_net_update_tau |-> Rat(1, 1), discount_factor |-> Rat(99, 100),
     doubledqn |-> FALSE]

\* parameter dictionaries of states that get_state did not return
ForeignParameters ==
    { dims @@ LoadScalars :
        dims \in { [n_state |-> 2, n_actions |-> 2],
                   [n_state |-> 2, n_actions |-> 3],
                   [n_state |-> 3, n_actions |-> 2],
                   [n_actions |-> 3],
                   [n_state |-> 2],
                   [n_state |-> 2, n_actions |-> 2, epsilon |-> D0_5],
                   ("N_state" :> 2) @@ ("N_ACTIONS" :> 3) } }

\* the live agent
Live ==
    LiveAgent(n_state, n_actions, parameters, policy_net, target_net,
              optimizer_steps, memory, capacity, epsilon, epsilon_1,
              d_epsilon, batch_size, target_net_update_stride,
              target_net_update_tau, discount_factor, doubleDQN, in_training,
              mode)

LoadInit ==
    /\ user_parameters \in
          { dims @@ LoadScalars :
              dims \in { [n_state |-> 2, n_actions |-> 2],
                         ("N_state" :> 2) @@ ("N_ACTIONS" :> 2) } }
    /\ \E built \in { reinitialize([n_state |-> 0, in_training |-> FALSE],
                                    user_parameters, 0).agent } :
           /\ parameters = built.parameters
           /\ n_state = built.n_state
           /\ n_actions = built.n_actions
           /\ capacity = built.capacity
           /\ memory = built.memory
           /\ epsilon = built.epsilon
           /\ epsilon_0 = built.epsilon
           /\ epsilon_before = built.epsilon
           /\ epsilon_1 = built.epsilon_1
           /\ d_epsilon = built.d_epsilon
           /\ batch_size = built.batch_size
           /\ target_net_update_stride = built.target_net_update_stride
           /\ target_net_update_tau = built.target_net_update_tau
           /\ discount_factor = built.discount_factor
           /\ doubleDQN = built.doubleDQN
           /\ in_training = built.in_training
           /\ mode = built.mode
           /\ optimizer_steps = built.optimizer_steps
    /\ neural_networks = DOMAIN parameters["neural_networks"]
    /\ constructed = "yes"
    /\ policy_net = ConstantNet(0, 1)
    /\ target_net = ConstantNet(1, 0)
    /\ decay_steps = 0
    /\ pushed = <<>>
    /\ sampled = NoSample
    /\ acted = NoAct
    /\ optimized = NoOptimization
    /\ policy_out = <<>>
    /\ target_out = <<>>
    /\ reward_batch = <<>>
    /\ done_batch = <<>>
    /\ rhs = [double \in BOOLEAN |-> NoTarget]
    /\ saved_state = NoState
    /\ loaded = NoLoad
    /\ soft_updated = NoSoftUpdate
    /\ StopIdle
    /\ TrainIdle

\* state = agent.get_state(), once
GetState ==
    /\ saved_state = NoState
    /\ saved_state' = get_state(parameters, policy_net, target_net,
                                optimizer_steps)
    /\ UNCHANGED <<n_state, loaded, soft_updated, memVars, stopVars, epsVars,
                   initVars, tdVars, agentVars, trainVars>>

\* agent.train(environment) that an exception of environment.reset() leaves
\* before its first time step: line 257 has set self.in_training
TrainInterrupted ==
    /\ ~in_training
    /\ in_training' = TRUE
    /\ acted' = NoAct
    /\ optimized' = NoOptimization
    /\ UNCHANGED <<mode, policy_net, target_net, batch_size,
                   target_net_update_stride, target_net_update_tau,
                   optimizer_steps, memVars, stopVars, epsVars, initVars,
                   tdVars, trainVars, loadVars>>

\* agent.load_state(state), state being the dictionary get_state returned
\* or one with other parameters and no weights
LoadState ==
    /\ ~loaded.called
    /\ \E st \in { [parameters |-> params] : params \in ForeignParameters }
                  \cup (IF saved_state = NoState THEN {} ELSE {saved_state}),
          fresh \in 0..1 :
          \E result \in { load_state(Live, st, fresh) } :
          LET agent == result.agent
          IN  /\ loaded' = LoadCall(st, result.status, Live, agent)
              /\ n_state' = agent.n_state
              /\ n_actions' = agent.n_actions
              /\ parameters' = agent.parameters
              /\ policy_net' = agent.policy_net
              /\ target_net' = agent.target_net
              /\ optimizer_steps' = agent.optimizer_steps
              /\ memory' = agent.memory
              /\ capacity' = agent.capacity
              /\ epsilon' = agent.epsilon
              /\ epsilon_1' = agent.epsilon_1
              /\ d_epsilon' = agent.d_epsilon
              /\ batch_size' = agent.batch_size
              /\ target_net_update_stride' = agent.target_net_update_stride
              /\ target_net_update_tau' = agent.target_net_update_tau
              /\ discount_factor' = agent.discount_factor
              /\ doubleDQN' = agent.doubleDQN
              /\ in_training' = agent.in_training
              /\ mode' = agent.mode
              \* set_parameters starts the epsilon schedule again
              /\ IF result.status = "RuntimeError"
                 THEN UNCHANGED <<epsilon_0, epsilon_before, decay_steps>>
                 ELSE /\ epsilon_0' = agent.epsilon
                      /\ epsilon_before' = agent.epsilon
                      /\ decay_steps' = 0
    /\ acted' = NoAct
    /\ optimized' = NoOptimization
    /\ UNCHANGED <<pushed, sampled, user_parameters, neural_networks, constructed, policy_out,
                   target_out, reward_batch, done_batch, rhs, saved_state,
                   soft_updated, stopVars, trainVars>>

\* the agent is followed up to its first call of load_state
LoadNext ==
    \/ ~loaded.called /\ AddMemory
    \/ ~loaded.called /\ RunOptimizationStep
    \/ ~loaded.called /\ GetState
    \/ ~loaded.called /\ TrainInterrupted
    \/ LoadState

SpecLoad == LoadInit /\ [][LoadNext]_vars

(***************************************************************************)
(* soft_update_target_net on its own.  The weights of a network are named  *)
(* tensors; the two networks are built from 'layers' lists that the user   *)
(* may give separately, so target_net may lack a name policy_net has, and  *)
(* the other way round.                                                    *)
(***************************************************************************)
PartialNet(names, q) == [s \in names |-> q]

SoftNets ==
    { PartialNet(names, q) :
        names \in {Obs, Obs \ {0}}, q \in DivergedQVectors(2) }

SoftUpdateInit ==
    /\ in_training = FALSE
    /\ mode = "train"
    /\ policy_net \in SoftNets
    /\ target_net \in SoftNets
    /\ batch_size = 0
    /\ target_net_update_stride = 1
    /\ target_net_update_tau \in {Rat(0, 1), Rat(1, 2), Rat(1, 1)}
    /\ optimizer_steps = 0
    /\ acted = NoAct
    /\ optimized = NoOptimization
    /\ n_state = 0
    /\ saved_state = NoState
    /\ loaded = NoLoad
    /\ soft_updated = NoSoftUpdate
    /\ MemoryIdle
    /\ StopIdle
    /\ EpsilonIdle
    /\ InitIdle
    /\ TargetIdle
    /\ TrainIdle

\* self.soft_update_target_net()
SoftUpdate ==
    /\ target_net' = soft_update_target_net(target_net_update_tau, policy_net,
                                            target_net)
    /\ soft_updated' = SoftUpdateCall(policy_net, target_net)
    /\ UNCHANGED <<in_training, mode, policy_net, batch_size,
                   target_net_update_stride, target_net_update_tau,
                   optimizer_steps, acted, optimized, n_state, saved_state,
                   loaded, memVars, stopVars, epsVars, initVars, tdVars,
                   trainVars>>

SoftUpdateNext == SoftUpdate

SpecSoftUpdate == SoftUpdateInit /\ [][SoftUpdateNext]_vars

(***************************************************************************)
(* C1: the occupancy never exceeds the capacity, and once more than        *)
(* capacity transitions have been pushed the occupancy equals the capacity *)
(* and the contents are the last capacity pushed transitions, in push      *)
(* order.                                                                  *)
(***************************************************************************)
LastPushed(n) == SubSeq(pushed, Len(pushed) - n + 1, Len(pushed))

C1_FifoEviction ==
    /\ len(memory) <= capacity
    /\ Len(pushed) > capacity =>
          /\ len(memory) = capacity
          /\ memory = LastPushed(capacity)

C1_Witness ==
    /\ capacity = 2
    /\ Len(pushed) = capacity + 2
    /\ pushed[2] /= pushed[4]
    /\ memory = LastPushed(2)

(***************************************************************************)
(* C2: sample(k) fails exactly when the occupancy is less than k; else it  *)
(* returns k transitions taken from k distinct positions of the contents;  *)
(* in both cases the contents and the occupancy are unchanged.             *)
(***************************************************************************)
C2_Sample ==
    sampled.status /= "none" =>
        /\ sampled.status = "ValueError" <=> len(sampled.before) < sampled.k
        /\ sampled.status /= "ValueError" =>
              /\ Len(sampled.items) = sampled.k
              /\ Len(sampled.positions) = sampled.k
              /\ \A i \in 1..sampled.k :
                    /\ sampled.positions[i] \in 1..len(sampled.before)
                    /\ sampled.items[i] = sampled.before[sampled.positions[i]]
              /\ \A i, j \in 1..sampled.k :
                    i /= j => sampled.positions[i] /= sampled.positions[j]
        /\ memory = sampled.before
        /\ len(memory) = len(sampled.before)

C2_Witness ==
    /\ sampled.status = "ok"
    /\ sampled.k = 2
    /\ len(memory) = 3
    /\ sampled.positions = <<3, 1>>

C2_WitnessError ==
    /\ sampled.status = "ValueError"
    /\ sampled.k = len(memory) + 1
    /\ len(memory) = 2

(***************************************************************************)
(* C3: with fewer than n_solving_episodes returns the criterion is         *)
(* (False, 0, 0); else the reported minimum and mean are those of the last *)
(* n_solving_episodes returns, and solved holds iff that minimum exceeds   *)
(* solving_threshold_min and that mean exceeds solving_threshold_mean; the *)
(* returns [100]*19 + [300] with n = 20 and threshold_min = 200 are not    *)
(* solved although their mean 110 passes a threshold_mean of 105.          *)
(***************************************************************************)
Window == { i \in 1..Len(episode_returns) :
              i > Len(episode_returns) - n_solving_episodes }

WindowMin == CHOOSE m \in { episode_returns[i] : i \in Window } :
                \A i \in Window : m <= episode_returns[i]

RECURSIVE WindowSum(_)
WindowSum(I) ==
    IF I = {} THEN 0
    ELSE LET i == CHOOSE j \in I : TRUE
         IN  episode_returns[i] + WindowSum(I \ {i})

Example19x100And300 == [i \in 1..20 |-> IF i <= 19 THEN 100 ELSE 300]

C3_StoppingCriterion ==
    /\ criterion.called =>
          IF Len(episode_returns) < n_solving_episodes
          THEN /\ criterion.solved = FALSE
               /\ criterion.minimal_return = 0
               /\ RatEq(criterion.mean_return, Rat(0, 1))
          ELSE /\ criterion.minimal_return = WindowMin
               /\ RatEq(criterion.mean_return,
                        Rat(WindowSum(Window), n_solving_episodes))
               /\ criterion.solved <=>
                     /\ WindowMin > solving_threshold_min
                     /\ WindowSum(Window)
                           > solving_threshold_mean * n_solving_episodes
    /\ LET c == evaluate_stopping_criterion(Example19x100And300, 20, 200, 105)
       IN  /\ ~c.solved
           /\ c.minimal_return = 100
           /\ RatEq(c.mean_return, Rat(110, 1))

\* the mean of the window passes, its minimum does not, and an older return
\* outside the window would have changed both
C3_Witness ==
    /\ criterion.called
    /\ n_solving_episodes = 2
    /\ episode_returns = <<0, 3, 1, 3>>
    /\ solving_threshold_min = 1
    /\ solving_threshold_mean = 1
    /\ ~criterion.solved

C3_WitnessSolved ==
    /\ criterion.called
    /\ criterion.solved
    /\ Len(episode_returns) > n_solving_episodes
    /\ episode_returns[1] = 0

(***************************************************************************)
(* C8 as stated: epsilon never increases, never goes below epsilon_1,      *)
(* stays at epsilon_1 once there, and from epsilon = 1.0, epsilon_1 = 0.1, *)
(* d_epsilon = 0.1 it is 0.1 after 9 steps and after 20 steps.             *)
(***************************************************************************)
ExampleSchedule ==
    epsilon_0 = D1_0 /\ epsilon_1 = D0_1 /\ d_epsilon = D0_1

DecayIsMonotoneAndFloored ==
    /\ FLessEq(epsilon_1, epsilon)
    /\ decay_steps > 0 =>
          /\ FLessEq(epsilon, epsilon_before)
          /\ epsilon_before = epsilon_1 => epsilon = epsilon_1

C8_AsStated ==
    /\ DecayIsMonotoneAndFloored
    /\ ExampleSchedule /\ decay_steps = 9 => epsilon = D0_1
    /\ ExampleSchedule /\ decay_steps = 20 => epsilon = D0_1

(***************************************************************************)
(* C8, amended: epsilon never increases, never goes below epsilon_1, is at *)
(* epsilon_1 after at most 20 steps and stays there; from epsilon = 1.0,   *)
(* epsilon_1 = 0.1, d_epsilon = 0.1 it is 0.10000000000000014 after 9      *)
(* steps, and 0.1 from the 10th step on.                                   *)
(***************************************************************************)
C8_EpsilonDecay ==
    /\ DecayIsMonotoneAndFloored
    /\ decay_steps >= 20 => epsilon = epsilon_1
    /\ ExampleSchedule /\ decay_steps = 9 => epsilon = D0_1plus
    /\ ExampleSchedule /\ decay_steps >= 10 => epsilon = D0_1

C8_Witness ==
    /\ ExampleSchedule
    /\ decay_steps = 10
    /\ epsilon_before = D0_1plus
    /\ epsilon = D0_1

(***************************************************************************)
(* C7: the parameters of a constructed agent are the deep merge of the     *)
(* user's dictionary with the defaults: at every nesting level of          *)
(* neural_networks, optimizers and losses a key the user did not give is   *)
(* filled from the defaults and a key the user gave keeps the user's       *)
(* value; a dqn agent whose user only names policy_net has a target_net.   *)
(***************************************************************************)
NestedKeys == {"neural_networks", "optimizers", "losses"}

\* merged has every key of either dictionary; below the nesting levels a
\* value is the user's if the user gave the key and else the default's
RECURSIVE IsDeepMerge(_, _, _, _)
IsDeepMerge(merged, user, defaults, depth) ==
    /\ DOMAIN merged = DOMAIN user \cup DOMAIN defaults
    /\ \A k \in DOMAIN merged :
          IF k \notin DOMAIN user THEN merged[k] = defaults[k]
          ELSE IF k \notin DOMAIN defaults THEN merged[k] = user[k]
          ELSE IF depth > 0 /\ k \in NestedKeys \cup
                                       {"policy_net", "target_net"}
               THEN IsDeepMerge(merged[k], user[k], defaults[k], depth - 1)
               ELSE merged[k] = user[k]

C7_DeepMerge ==
    constructed = "yes" =>
        LET user == make_dictionary_keys_lowercase(user_parameters)
        IN  /\ IsDeepMerge(parameters, user,
                           get_default_parameters(user["n_state"],
                                                  user["n_actions"]), 2)
            /\ "target_net" \in DOMAIN parameters["neural_networks"]
            /\ constructed = "yes" => "target_net" \in neural_networks

\* what the constructor does: the merge is by top-level key
MergeIsByTopLevelKey ==
    constructed \notin {"no", "RuntimeError"} =>
        LET user == make_dictionary_keys_lowercase(user_parameters)
            defaults == get_default_parameters(user["n_state"],
                                               user["n_actions"])
        IN  /\ DOMAIN parameters = DOMAIN user \cup DOMAIN defaults
            /\ \A k \in DOMAIN parameters :
                  IF k \in DOMAIN user THEN parameters[k] = user[k]
                  ELSE parameters[k] = defaults[k]

(***************************************************************************)
(* C9 as stated: for every row with done = True the TD target equals the   *)
(* row's reward, whatever Q_next, the discount factor and the doubledqn    *)
(* flag are.                                                               *)
(***************************************************************************)
C9_AsStated ==
    \A double \in BOOLEAN :
        rhs[double] /= NoTarget =>
            \A i \in DOMAIN reward_batch :
                done_batch[i] =>
                    TargetEq(rhs[double][i], Rat(reward_batch[i], 1))

(***************************************************************************)
(* C9, amended: the TD target of every row is Q_next * discount_factor *   *)
(* (1 - done) + reward; for every row with done = True and a finite Q_next *)
(* it is the row's reward, whatever Q_next, the discount factor and the    *)
(* doubledqn flag are; for a row with done = True and an infinite Q_next   *)
(* it is NaN.                                                              *)
(***************************************************************************)
C9_TerminalBootstrap ==
    \A double \in BOOLEAN :
        rhs[double] /= NoTarget =>
            \A i \in DOMAIN reward_batch :
                LET q == Q_next_state(policy_out[i], target_out[i], double)
                IN  /\ q < Infinity =>
                          TargetEq(rhs[double][i],
                                   Rat(q * discount_factor.num
                                         * (IF done_batch[i] THEN 0 ELSE 1)
                                         + reward_batch[i]
                                             * discount_factor.den,
                                       discount_factor.den))
                    /\ done_batch[i] /\ q < Infinity =>
                          TargetEq(rhs[double][i], Rat(reward_batch[i], 1))
                    /\ done_batch[i] /\ q = Infinity =>
                          rhs[double][i] = NaN

\* a terminal row whose finite Q_next, discounted, is not zero, next to a
\* terminal row whose Q_next is infinite
C9_Witness ==
    /\ rhs[TRUE] /= NoTarget
    /\ rhs[FALSE] /= NoTarget
    /\ discount_factor = Rat(99, 100)
    /\ Len(reward_batch) = 2
    /\ done_batch[1]
    /\ MaxValue(target_out[1]) = Infinity
    /\ rhs[FALSE][1] = NaN
    /\ done_batch[2]
    /\ reward_batch[2] = 1
    /\ target_out[2][ArgMax(policy_out[2])] > 0
    /\ TargetEq(rhs[TRUE][2], Rat(1, 1))

(***************************************************************************)
(* C10 as stated: the vanilla target and the double DQN target differ      *)
(* whenever the argmax actions of policy_net and target_net disagree on at *)
(* least one row of the batch.                                             *)
(***************************************************************************)
BothTargetsComputed == rhs[TRUE] /= NoTarget /\ rhs[FALSE] /= NoTarget

TargetsDiffer ==
    \E i \in DOMAIN reward_batch : ~TargetEq(rhs[FALSE][i], rhs[TRUE][i])

FiniteOutputs ==
    \A i \in DOMAIN target_out : target_out[i] \in QVectors(n_actions)

ArgMaxDisagree(i) == ArgMax(policy_out[i]) /= ArgMax(target_out[i])

C10_WitnessTie ==
    /\ BothTargetsComputed
    /\ FiniteOutputs
    /\ ~TargetsDiffer
    /\ discount_factor.num /= 0
    /\ \E i \in DOMAIN reward_batch : ArgMaxDisagree(i) /\ ~done_batch[i]

(***************************************************************************)
(* C5: when the agent is idle and act is called without an epsilon, the    *)
(* action is the first-index argmax of policy_net's output, whatever the   *)
(* random draw is.                                                         *)
(***************************************************************************)
FirstArgMax(q) ==
    CHOOSE a \in DOMAIN q : \A b \in DOMAIN q :
        q[b] < q[a] \/ (q[b] = q[a] /\ a <= b)

C5_IdleActIsGreedy ==
    (acted.called /\ ~acted.in_training /\ acted.epsilon = D0_0) =>
        acted.action = FirstArgMax(acted.q)

(***************************************************************************)
(* C6: policy_net's train/eval mode after act returns is its mode before   *)
(* the call, in every interleaving of act and run_optimization_step.       *)
(***************************************************************************)
C6_ActRestoresMode ==
    acted.called => acted.mode_after = acted.mode_before

(***************************************************************************)
(* C4: the agent is in_training while train runs and is idle again         *)
(* whenever train has been left: by its return, and also by an exception   *)
(* of the environment, of act, of the optimization step or of the          *)
(* checkpoint.                                                             *)
(***************************************************************************)
C4_IdleWhenTrainIsLeft ==
    /\ pc \in {"reset", "step", "save"} => in_training
    /\ pc \in {"returned", "raised"} => ~in_training

(***************************************************************************)
(* C16: run_optimization_step(epoch) called while the occupancy of the     *)
(* memory is below batch_size is a no-op for every epoch: it leaves the    *)
(* weights of policy_net and target_net, policy_net's mode, the optimizer  *)
(* state, epsilon and the memory unchanged.                                *)
(***************************************************************************)
C16_SkippedStepIsNoOp ==
    [][optimized'.called /\ optimized'.skipped =>
          /\ optimized'.after = optimized'.before
          /\ UNCHANGED <<policy_net, target_net, mode, epsilon,
                         optimizer_steps, memory>>]_vars

\* a skipped step with epoch 1 on a memory that holds a transition, after an
\* optimization step that was not skipped
C16_Witness ==
    /\ optimized.called
    /\ optimized.skipped
    /\ optimized.epoch = 1
    /\ len(memory) = 1
    /\ optimizer_steps = 0
    /\ epsilon = epsilon_0
    /\ policy_net /= target_net

(***************************************************************************)
(* C17: in train every environment step pushes one transition and adds one *)
(* to the step counter; run_optimization_step is called exactly on the     *)
(* steps where the step counter, counted across episodes, is a multiple of *)
(* training_stride; the epoch counter grows by one per call, skipped or    *)
(* not: epoch_counter = floor(step_counter / training_stride), and the     *)
(* k-th call receives epoch k - 1.                                         *)
(***************************************************************************)
C17_TrainingStride ==
    pc \in {"reset", "step", "save", "returned"} =>
        /\ Len(pushed) = step_counter
        /\ step_counter > 0 =>
              /\ memory = LastPushed(IF step_counter < capacity
                                     THEN step_counter ELSE capacity)
              /\ optimized.called <=> step_counter % training_stride = 0
        /\ epoch_counter = step_counter \div training_stride
        /\ invocations = epoch_counter
        /\ optimized.called => optimized.epoch = invocations - 1

\* the second call, at the first time step of the third episode
C17_Witness ==
    /\ pc = "step"
    /\ training_stride = 2
    /\ n_episode = 2
    /\ episode_durations = <<1, 2>>
    /\ step_counter = 4
    /\ optimized.called
    /\ optimized.epoch = 1
    /\ invocations = 2

(***************************************************************************)
(* C18: within a training run target_net changes only inside a call of     *)
(* run_optimization_step that is not skipped and whose epoch is a multiple *)
(* of target_net_update_stride, and every such call soft-updates it; with  *)
(* tau = 1 target_net then equals policy_net, and on all other steps       *)
(* target_net is unchanged.                                                *)
(***************************************************************************)
TargetUpdateDue(call) ==
    /\ call.called
    /\ ~call.skipped
    /\ call.epoch % target_net_update_stride = 0

C18_WitnessNoUpdate ==
    /\ pc \in {"step", "save"}
    /\ target_net_update_tau = Rat(1, 1)
    /\ optimized.called
    /\ ~optimized.skipped
    /\ optimized.epoch % target_net_update_stride /= 0
    /\ optimized.after.policy_net /= optimized.before.policy_net
    /\ target_net /= policy_net

(***************************************************************************)
(* C19 as stated: after every completed episode the four result sequences  *)
(* have the length of the number of episodes completed, steps_simulated is *)
(* strictly increasing and is the running sum of episode_durations, and    *)
(* training_epochs is non-decreasing with training_epochs[i] the number of *)
(* optimization steps taken by the end of episode i.                       *)
(***************************************************************************)
EpisodesCompleted ==
    IF pc \in {"save", "returned"} THEN n_episode + 1 ELSE n_episode

InTrain == pc \in {"reset", "step", "save", "returned"}

SequencesAgree ==
    /\ Len(episode_durations) = EpisodesCompleted
    /\ Len(episode_returns) = EpisodesCompleted
    /\ Len(training_epochs) = EpisodesCompleted
    /\ Len(steps_simulated) = EpisodesCompleted
    /\ \A i \in 1..Len(steps_simulated) :
          /\ steps_simulated[i] = SeqSum(SubSeq(episode_durations, 1, i))
          /\ i > 1 => /\ steps_simulated[i] > steps_simulated[i - 1]
                      /\ training_epochs[i] >= training_epochs[i - 1]

C14_TrainReturnsResults ==
    /\ pc \in {"reset", "step"} =>
          /\ ~training_complete
          /\ n_episode < n_episodes_max
          /\ Len(episode_returns) = n_episode
    /\ pc = "returned" =>
          /\ returned.content.training_completed = training_complete
          /\ training_complete <=> criterion.solved
          /\ ~training_complete => Len(episode_returns) = n_episodes_max
          /\ returned.content.episode_durations = episode_durations
          /\ returned.content.epsiode_returns = episode_returns
          /\ returned.content.n_training_epochs = training_epochs
          /\ returned.content.n_steps_simulated = steps_simulated
    /\ pc = "raised" => returned.content = "Exception"

(***************************************************************************)
(* C15: a checkpoint is taken at the end of episode e if and only if       *)
(* e mod saving_stride = 0, or the run became solved at e, or e is the     *)
(* final episode n_episodes_max - 1; with a model destination the saved    *)
(* map from episodes to agent states only grows, and each snapshot keeps   *)
(* the weights the agent had at the end of its own episode.                *)
(***************************************************************************)
CheckpointEpisodes ==
    { e \in 0..(EpisodesCompleted - 1) :
        /\ e = n_episode => pc = "returned"
        /\ \/ e % saving_stride = 0
           \/ e = n_episode /\ training_complete
           \/ e = n_episodes_max - 1 }

C15_CheckpointsTaken ==
    InTrain =>
        /\ model_filename =>
              /\ DOMAIN output_state_dicts = CheckpointEpisodes
              /\ CheckpointEpisodes /= {} =>
                    model_file = Written(output_state_dicts)
        /\ ~model_filename =>
              output_state_dicts = EmptyDict /\ model_file = NoFile

C20_PersistedFlagAgrees ==
    (/\ pc = "returned"
     /\ training_filename
     /\ returned.content.training_completed) =>
        /\ results_file.written
        /\ results_file.content.training_completed

(***************************************************************************)
(* C11 as stated: soft_update_target_net sets every weight of target_net   *)
(* to tau * policy + (1 - tau) * target and leaves policy_net unchanged:   *)
(* with tau = 1 the weights of target_net equal those of policy_net after  *)
(* one update, and with tau = 0 the weights of target_net are unchanged.   *)
(***************************************************************************)
C11_AsStated ==
    soft_updated.called =>
        /\ policy_net = soft_updated.policy_net
        /\ target_net_update_tau = Rat(1, 1) => target_net = policy_net
        /\ target_net_update_tau = Rat(0, 1) =>
              target_net = soft_updated.target_net

(***************************************************************************)
(* C11, amended: soft_update_target_net sets every weight of target_net    *)
(* whose name policy_net has too to tau * policy + (1 - tau) * target, and *)
(* leaves the other weights of target_net and all of policy_net unchanged; *)
(* where the old weight of target_net is finite, tau = 1 gives the weight  *)
(* of policy_net, and where the weight of policy_net is finite, tau = 0    *)
(* leaves the weight of target_net unchanged.                              *)
(***************************************************************************)
IsFiniteWeight(w) == w < Infinity

C11_SoftUpdate ==
    soft_updated.called =>
        LET tau == target_net_update_tau
            old == soft_updated.target_net
        IN  /\ policy_net = soft_updated.policy_net
            /\ DOMAIN target_net = DOMAIN old
            /\ \A s \in DOMAIN old \ DOMAIN policy_net :
                  target_net[s] = old[s]
            /\ \A s \in DOMAIN old \cap DOMAIN policy_net :
                  \A a \in DOMAIN old[s] :
                     LET p == policy_net[s][a]
                         t == old[s][a]
                         new == target_net[s][a]
                     IN  /\ IsFiniteWeight(p) /\ IsFiniteWeight(t) =>
                               new = (tau.num * p + (tau.den - tau.num) * t)
                                        \div tau.den
                         /\ tau = Rat(1, 1) /\ IsFiniteWeight(t) => new = p
                         /\ tau = Rat(0, 1) /\ IsFiniteWeight(p) => new = t
                         /\ tau = Rat(1, 1) /\ t = Infinity => new = NaNWeight
                         /\ tau = Rat(0, 1) /\ p = Infinity => new = NaNWeight

\* a hard copy onto a target net of the same names and different weights
C11_Witness ==
    /\ soft_updated.called
    /\ target_net_update_tau = Rat(1, 1)
    /\ DOMAIN policy_net = DOMAIN soft_updated.target_net
    /\ \A s \in DOMAIN policy_net : \A a \in DOMAIN policy_net[s] :
          /\ IsFiniteWeight(policy_net[s][a])
          /\ IsFiniteWeight(soft_updated.target_net[s][a])
    /\ soft_updated.target_net /= policy_net
    /\ target_net = policy_net

\* tau = 0 with a finite policy net: target_net keeps its weights
C11_WitnessFrozen ==
    /\ soft_updated.called
    /\ target_net_update_tau = Rat(0, 1)
    /\ DOMAIN policy_net = DOMAIN target_net
    /\ \A s \in DOMAIN policy_net : \A a \in DOMAIN policy_net[s] :
          IsFiniteWeight(policy_net[s][a])
    /\ target_net /= policy_net
    /\ target_net = soft_updated.target_net

(***************************************************************************)
(* C12: load_state(state) fails with an error whenever state's parameters  *)
(* contain an n_state or an n_actions value that differs from the live     *)
(* agent's, and then the live agent's parameters, weights, optimizer       *)
(* state, memory and epsilon are unchanged; a parameter dictionary that    *)
(* lacks such a key is not rejected by the compatibility check.  The keys  *)
(* of a parameter dictionary are read as the constructor reads them,       *)
(* whatever their case.                                                    *)
(***************************************************************************)
GivenParameters == make_dictionary_keys_lowercase(loaded.state["parameters"])

DimensionsDiffer ==
    \/ /\ "n_state" \in DOMAIN GivenParameters
       /\ GivenParameters["n_state"] /= loaded.before.n_state
    \/ /\ "n_actions" \in DOMAIN GivenParameters
       /\ GivenParameters["n_actions"] /= loaded.before.n_actions

C12_LoadRejectsMismatch ==
    loaded.called =>
        /\ DimensionsDiffer =>
              /\ loaded.status /= "ok"
              /\ loaded.after = loaded.before
        /\ \/ "n_state" \notin DOMAIN loaded.state["parameters"]
           \/ "n_actions" \notin DOMAIN loaded.state["parameters"]
           => check_parameter_dictionary_compatibility(
                  loaded.before.n_state, loaded.before.n_actions,
                  loaded.state["parameters"]) = "ok"

(***************************************************************************)
(* C13: load_state(get_state()) on an agent in a state reached by training *)
(* gives an agent with the same parameter dictionary, the same weights of  *)
(* every network and the same optimizer state, hence the same greedy       *)
(* action for every probe state; and a state returned by get_state is a    *)
(* snapshot that later optimization steps do not change.                   *)
(***************************************************************************)
IsRoundTrip ==
    /\ loaded.called
    /\ loaded.state = get_state(loaded.before.parameters,
                                loaded.before.policy_net,
                                loaded.before.target_net,
                                loaded.before.optimizer_steps)

RoundTripRestores ==
    /\ IsRoundTrip =>
          /\ loaded.status = "ok"
          /\ loaded.after.parameters = loaded.before.parameters
          /\ loaded.after.policy_net = loaded.before.policy_net
          /\ loaded.after.target_net = loaded.before.target_net
          /\ loaded.after.optimizer_steps = loaded.before.optimizer_steps
          /\ \A s \in Obs :
                ArgMax(Forward(loaded.after.policy_net, s))
                   = ArgMax(Forward(loaded.before.policy_net, s))
    /\ loaded.called /\ loaded.state = saved_state =>
          /\ loaded.status = "ok"
          /\ policy_net = saved_state.policy_net
          /\ target_net = saved_state.target_net
          /\ optimizer_steps = saved_state.policy_net_optimizer

C13_RoundTrip ==
    [][/\ RoundTripRestores'
       /\ saved_state /= NoState => saved_state' = saved_state
       /\ saved_state' /= saved_state =>
             saved_state' = get_state(parameters, policy_net, target_net,
                                      optimizer_steps)]_vars

\* the state of a trained agent, loaded right after it was taken
C13_Witness ==
    /\ IsRoundTrip
    /\ loaded.before.optimizer_steps > 0
    /\ loaded.before.policy_net /= ConstantNet(0, 1)
    /\ loaded.before.memory /= <<>>
    /\ policy_net = loaded.before.policy_net
    /\ optimizer_steps = loaded.before.optimizer_steps

\* a snapshot loaded after an optimization step that followed it
C13_WitnessSnapshot ==
    /\ loaded.called
    /\ loaded.state = saved_state
    /\ loaded.before.policy_net /= saved_state.policy_net
    /\ policy_net = saved_state.policy_net

(***************************************************************************)
(* C21: a successful load_state re-runs the full initialization: after it  *)
(* the replay buffer is empty, epsilon is the 'epsilon' value of the       *)
(* loaded parameters, and in_training is False, whatever they were before  *)
(* the call.                                                               *)
(***************************************************************************)
\* the last operation was a load_state that raised nothing
LoadSucceeded == loaded.called /\ loaded.status = "ok"

C21_LoadReinitializes ==
    LoadSucceeded =>
       /\ len(memory) = 0
       /\ memory = memory_init(capacity)
       /\ "epsilon" \in DOMAIN loaded.state["parameters"] =>
             epsilon = loaded.state["parameters"]["epsilon"]
       /\ in_training = FALSE

\* the agent's own state, loaded when the buffer held transitions, epsilon
\* had decayed and an interrupted train had left in_training set
C21_Witness ==
    /\ LoadSucceeded
    /\ loaded.state = saved_state
    /\ len(loaded.before.memory) > 0
    /\ loaded.before.epsilon /= loaded.state["parameters"]["epsilon"]
    /\ loaded.before.in_training
    /\ epsilon = D1_0

\* a state with an epsilon of its own, loaded into such an agent
C21_WitnessOtherEpsilon ==
    /\ LoadSucceeded
    /\ loaded.state["parameters"]["epsilon"] = D0_5
    /\ len(loaded.before.memory) > 0
    /\ loaded.before.epsilon \notin {D0_5, D1_0}
    /\ loaded.before.in_training
    /\ epsilon = D0_5

(***************************************************************************)
(* C22: train() terminates: provided every episode of the environment      *)
(* eventually reports terminated or truncated, train() returns after at    *)
(* most n_episodes_max episodes; if an episode never reports terminated or *)
(* truncated, train() never returns and never checkpoints again.           *)
(***************************************************************************)
\* the environment ends every episode
EveryEpisodeEnds == endless_episode = NoEndless

\* train is inside the episode that the environment never ends
InEndlessEpisode == pc = "step" /\ n_episode = endless_episode

\* C22, its first half as stated: a train() whose environment ends every
\* episode eventually returns
C22_TrainReturns == EveryEpisodeEnds => <>(pc = "returned")

\* C22 for the runs with at least one episode: such a train() returns
C22_ReturnsWhenEpisodesRun ==
    (EveryEpisodeEnds /\ n_episodes_max > 0) => <>(pc = "returned")

\* C22: train() is left after at most n_episodes_max episodes, and a train()
\* that is not left by returning has run no episode
C22_AtMostMaxEpisodes ==
    /\ Len(episode_durations) <= n_episodes_max
    /\ pc = "returned" => n_episodes_max > 0
    /\ pc = "raised" =>
          n_episodes_max = 0 /\ returned = Written("UnboundLocalError")

\* C22, its second half: inside an episode that never ends, train() only
\* takes further time steps: it neither returns nor writes a checkpoint
C22_EndlessEpisode ==
    [][InEndlessEpisode =>
          /\ InEndlessEpisode'
          /\ UNCHANGED <<model_file, results_file, output_state_dicts,
                         returned, in_training, n_episode>>]_vars

\* an episode without end after an episode that was checkpointed
C22_WitnessEndless ==
    /\ InEndlessEpisode
    /\ endless_episode = 1
    /\ i_step = MaxEndlessSteps
    /\ results_file /= NoFile
    /\ in_training

\* a train() that returned after n_episodes_max episodes, the stopping
\* criterion not met
C22_WitnessReturned ==
    /\ pc = "returned"
    /\ Len(episode_durations) = n_episodes_max
    /\ ~training_complete

====
